---------------------------- MODULE Spec2Model ----------------------------
(***************************************************************************)
(* A model of streamlit_app.py: the staffing solver erlang_a_fte and the   *)
(* "Calculate Required FTE" handler that calls it.                         *)
(*                                                                         *)
(* Python floats are modelled as binary floating-point numbers <<m, e>>    *)
(* (value m * 2^e) with a MantBits-bit significand, round-to-nearest-even, *)
(* the binary64 exponent range (overflow at 2^MaxExp), infinities, NaN and *)
(* the exceptions Python raises (ZeroDivisionError, OverflowError).  Only  *)
(* the significand width differs from binary64 (13 bits instead of 53;     *)
(* 13 = 53 mod 4, so 1/5, 1/3 and 1/10 round in the same direction as in   *)
(* binary64).  Gradual underflow is not modelled.                          *)
(***************************************************************************)
EXTENDS Integers, Sequences, FiniteSets

VARIABLES
    pc,       \* position inside erlang_a_fte: idle, entry, for, a statement of
              \* the loop body, returned, raised
    caller,   \* who called erlang_a_fte: "direct" or "handler"
    args,     \* the arguments of the running (or last) call of erlang_a_fte
    locals,   \* the local variables of erlang_a_fte
    n,        \* the loop variable of the search
    trail,    \* the candidates visited so far, each with what the loop did with it
    result,   \* the value returned (None or an agent count)
    exc,      \* the exception raised ("" when none)
    prev,     \* the previous completed direct call (to compare two calls)
    ui,       \* the widget values the handler read
    hpc,      \* the handler: none, await (inside erlang_a_fte), done
    view      \* what the page shows after the click

vars == <<pc, caller, args, locals, n, trail, result, exc, prev, ui, hpc, view>>

---------------------------------------------------------------------------
(* Bounds of the model *)

\* significand width of the modelled floats
MantBits == 13
\* direct calls use calls_per_hour = 3 * k for k in 0 .. MaxCallUnits
MaxCallUnits == 4
\* direct calls use max_agents in 1 .. MaxAgentsSmall, and the default
MaxAgentsSmall == 4

---------------------------------------------------------------------------
(* Python floats *)

\* binary64: a finite value is below 2^1024
MaxExp == 1024

Abs(i) == IF i < 0 THEN -i ELSE i
Sgn(i) == IF i > 0 THEN 1 ELSE IF i < 0 THEN -1 ELSE 0

RECURSIVE BitLen(_)
BitLen(a) == IF a = 0 THEN 0 ELSE 1 + BitLen(a \div 2)

Zero == <<0, 0>>
NaN == <<0, MaxExp>>
Inf(s) == <<s, MaxExp>>
ZeroDivisionError == <<1, MaxExp + 1>>
OverflowError == <<2, MaxExp + 1>>

IsExc(x) == x[2] = MaxExp + 1
IsNaN(x) == x = NaN
IsInf(x) == x[2] = MaxExp /\ x[1] # 0
IsFinite(x) == x[2] < MaxExp
ExcName(x) == IF x = ZeroDivisionError THEN "ZeroDivisionError" ELSE "OverflowError"

\* the float nearest to N * 2^e (ties to even), exponent range not applied
Round(N, e) ==
    IF N = 0 THEN Zero
    ELSE LET A == Abs(N)
             L == BitLen(A)
         IN  IF L <= MantBits
             THEN <<N * 2^(MantBits - L), e - (MantBits - L)>>
             ELSE LET sh == L - MantBits
                      q == A \div 2^sh
                      r == A % 2^sh
                      up == (2 * r > 2^sh) \/ (2 * r = 2^sh /\ q % 2 = 1)
                      q1 == IF up THEN q + 1 ELSE q
                  IN  IF q1 = 2^MantBits
                      THEN <<Sgn(N) * 2^(MantBits - 1), e + sh + 1>>
                      ELSE <<Sgn(N) * q1, e + sh>>

\* a result of +, -, *, /: a value of 2^1024 or more becomes an infinity
Fl(N, e) ==
    LET x == Round(N, e)
    IN  IF x[1] # 0 /\ x[2] + MantBits > MaxExp THEN Inf(Sgn(N)) ELSE x

FromInt(i) == Round(i, 0)
One == FromInt(1)

FNeg(x) == IF IsExc(x) THEN x ELSE <<-x[1], x[2]>>

FMul(a, b) ==
    IF IsExc(a) THEN a
    ELSE IF IsExc(b) THEN b
    ELSE IF IsNaN(a) \/ IsNaN(b) THEN NaN
    ELSE IF IsInf(a) \/ IsInf(b)
         THEN (IF a[1] = 0 \/ b[1] = 0 THEN NaN ELSE Inf(Sgn(a[1]) * Sgn(b[1])))
    ELSE Fl(a[1] * b[1], a[2] + b[2])

\* Python raises ZeroDivisionError for every float division by zero
FDiv(a, b) ==
    IF IsExc(a) THEN a
    ELSE IF IsExc(b) THEN b
    ELSE IF b = Zero THEN ZeroDivisionError
    ELSE IF IsNaN(a) \/ IsNaN(b) THEN NaN
    ELSE IF IsInf(a) THEN (IF IsInf(b) THEN NaN ELSE Inf(Sgn(a[1]) * Sgn(b[1])))
    ELSE IF IsInf(b) \/ a = Zero THEN Zero
    ELSE LET A == Abs(a[1])
             B == Abs(b[1])
             k == MantBits + 2
             Q == (A * 2^k) \div B
             R == (A * 2^k) % B
             sticky == IF R = 0 THEN 0 ELSE 1
         IN  Fl(Sgn(a[1]) * Sgn(b[1]) * (2 * Q + sticky), a[2] - b[2] - k - 1)

\* a + b for finite non-zero a, b with a[2] >= b[2]
AddAligned(a, b) ==
    LET d == a[2] - b[2]
    IN  IF d <= MantBits + 2
        THEN Fl(a[1] * 2^d + b[1], b[2])
        ELSE Fl(a[1] * 4 + Sgn(b[1]), a[2] - 2)

FAdd(a, b) ==
    IF IsExc(a) THEN a
    ELSE IF IsExc(b) THEN b
    ELSE IF IsNaN(a) \/ IsNaN(b) THEN NaN
    ELSE IF IsInf(a) THEN (IF IsInf(b) /\ a[1] # b[1] THEN NaN ELSE a)
    ELSE IF IsInf(b) THEN b
    ELSE IF a = Zero THEN b
    ELSE IF b = Zero THEN a
    ELSE IF a[2] >= b[2] THEN AddAligned(a, b) ELSE AddAligned(b, a)

FSub(a, b) == FAdd(a, FNeg(b))

\* a >= b and a > b (False when either is NaN)
FGe(a, b) ==
    /\ ~IsNaN(a)
    /\ ~IsNaN(b)
    /\ (a = b \/ FSub(a, b)[1] > 0)

FGt(a, b) ==
    /\ ~IsNaN(a)
    /\ ~IsNaN(b)
    /\ a # b
    /\ FSub(a, b)[1] > 0

\* a ** k for an int k >= 0 (by squaring): OverflowError when the power is
\* out of range
RECURSIVE FPow(_, _)
FPow(a, k) ==
    IF IsExc(a) THEN a
    ELSE IF k = 0 THEN One
    ELSE LET h == FPow(a, k \div 2)
             sq == IF IsExc(h) THEN h ELSE FMul(h, h)
             p == IF k % 2 = 0 \/ IsExc(sq) THEN sq ELSE FMul(sq, a)
         IN  IF IsExc(p) THEN p
             ELSE IF IsInf(p) /\ IsFinite(a) THEN OverflowError
             ELSE p

\* lo * (lo + 1) * ... * hi
RECURSIVE Product(_, _)
Product(lo, hi) ==
    IF lo = hi THEN FromInt(lo)
    ELSE LET mid == (lo + hi) \div 2
         IN  FMul(Product(lo, mid), Product(mid + 1, hi))

\* math.factorial(k) as the float the division converts it to: an int above
\* the float range cannot be converted (OverflowError)
Factorial(k) ==
    IF k <= 1 THEN One
    ELSE LET f == Product(1, k)
         IN  IF IsInf(f) THEN OverflowError ELSE f

\* round(x * 2^13) for a finite x with |x| < 2^10
Fixed13(x) ==
    LET sh == x[2] + 13
    IN  IF sh >= 0 THEN x[1] * 2^sh
        ELSE IF -sh > MantBits + 1 THEN 0
        ELSE LET A == Abs(x[1])
                 q == A \div 2^(-sh)
                 r == A % 2^(-sh)
             IN  Sgn(x[1]) * (IF 2 * r >= 2^(-sh) THEN q + 1 ELSE q)

\* k * ln 2, scaled by 2^13
Ln2Times(k) == k * 5678 + (k * 2144) \div 8192

\* the Taylor series of e^(r / 2^13), scaled by 2^17
RECURSIVE ExpSeries(_, _, _, _)
ExpSeries(acc, t, r, j) ==
    IF t = 0 THEN acc
    ELSE LET t1 == (t * r) \div (j * 8192)
         IN  ExpSeries(acc + t1, t1, r, j + 1)

\* math.exp: OverflowError above 709.78, 0.0 below -745.13
FExp(x) ==
    IF IsExc(x) THEN x
    ELSE IF IsNaN(x) THEN NaN
    ELSE IF IsInf(x) THEN (IF x[1] > 0 THEN x ELSE Zero)
    ELSE IF x = Zero THEN One
    ELSE IF x[2] + MantBits > 10
         THEN (IF x[1] > 0 THEN OverflowError ELSE Zero)
    ELSE LET X == Fixed13(x)
         IN  IF X > 5814540 THEN OverflowError
             ELSE IF X < -6104105 THEN Zero
             ELSE LET k0 == X \div 5678
                      k == IF X - Ln2Times(k0) < 0 THEN k0 - 1 ELSE k0
                      r == X - Ln2Times(k)
                  IN  Round(ExpSeries(131072, 131072, r, 1), k - 17)

\* math.ceil of a finite float
FCeil(x) ==
    IF x[2] >= 0 THEN x[1] * 2^(x[2])
    ELSE IF -x[2] > 30 THEN (IF x[1] > 0 THEN 1 ELSE 0)
    ELSE -((-x[1]) \div 2^(-x[2]))

\* format(x, ".1f") of a finite float, as a number of tenths (ties to even)
Tenths(x) ==
    IF x[2] >= 0 THEN 10 * x[1] * 2^(x[2])
    ELSE IF -x[2] > 30 THEN 0
    ELSE LET A == 10 * Abs(x[1])
             q == A \div 2^(-x[2])
             r == A % 2^(-x[2])
             up == (2 * r > 2^(-x[2])) \/ (2 * r = 2^(-x[2]) /\ q % 2 = 1)
         IN  Sgn(x[1]) * (IF up THEN q + 1 ELSE q)

---------------------------------------------------------------------------
(* erlang_a_fte *)

\* return None
None == -1
\* max_agents=100
DefaultMaxAgents == 100

Args(calls, aht, sla, thr, ar, pat, maxa, shr) ==
    [calls_per_hour |-> calls, aht_sec |-> aht, target_sla |-> sla,
     sla_threshold_sec |-> thr, target_answer_rate |-> ar,
     avg_patience_sec |-> pat, max_agents |-> maxa, shrinkage |-> shr]

\* the local variables, before any is assigned
NoLocals ==
    [lambda_per_sec |-> Zero, mu |-> Zero, theta |-> Zero, rho |-> Zero,
     erlang_b |-> Zero, sum_erlang_b |-> Zero, p0 |-> Zero, pw |-> Zero,
     exponent_sl |-> Zero, service_level |-> Zero,
     prob_abandon_given_wait |-> Zero, abandonment_rate |-> Zero,
     answer_rate |-> Zero]

\* lines 21-23
Prologue(a) ==
    [NoLocals EXCEPT !.lambda_per_sec = FDiv(a.calls_per_hour, FromInt(3600)),
                     !.mu = FDiv(One, a.aht_sec),
                     !.theta = FDiv(One, a.avg_patience_sec)]

\* the exception lines 21-23 raise, if any
PrologueExc(a) ==
    LET l == Prologue(a)
    IN  IF IsExc(l.lambda_per_sec) THEN ExcName(l.lambda_per_sec)
        ELSE IF IsExc(l.mu) THEN ExcName(l.mu)
        ELSE IF IsExc(l.theta) THEN ExcName(l.theta)
        ELSE ""

\* n * mu
NMu(l, k) == FMul(FromInt(k), l.mu)

\* rho = lambda_per_sec / (n * mu)
Rho(l, k) == FDiv(l.lambda_per_sec, NMu(l, k))

\* if rho >= 1: continue
Unstable(rho) == FGe(rho, One)

\* (lambda_per_sec / mu)**k / math.factorial(k)
Term(l, k) == FDiv(FPow(FDiv(l.lambda_per_sec, l.mu), k), Factorial(k))

ErlangB(l, k) == Term(l, k)

\* sum(... for k in range(n)), from the int 0
RECURSIVE SumErlangB(_, _)
SumErlangB(l, k) ==
    IF k = 0 THEN Zero
    ELSE LET head == SumErlangB(l, k - 1)
         IN  IF IsExc(head) THEN head ELSE FAdd(head, Term(l, k - 1))

P0(sum_erlang_b, erlang_b, rho) ==
    FDiv(One, FAdd(sum_erlang_b, FDiv(erlang_b, FSub(One, rho))))

Pw(erlang_b, rho, p0) == FMul(FDiv(erlang_b, FSub(One, rho)), p0)

ExponentSl(l, a, k) ==
    FMul(FNeg(FSub(NMu(l, k), l.lambda_per_sec)), a.sla_threshold_sec)

ServiceLevel(pw, exponent_sl) == FSub(One, FMul(pw, FExp(exponent_sl)))

ProbAbandonGivenWait(l, k) == FDiv(l.theta, FAdd(NMu(l, k), l.theta))

AbandonmentRate(pw, prob_abandon_given_wait) == FMul(pw, prob_abandon_given_wait)

AnswerRate(abandonment_rate) == FSub(One, abandonment_rate)

\* the test of line 57 negated
MissesTargets(a, service_level, answer_rate) ==
    ~(FGe(service_level, a.target_sla) /\ FGe(answer_rate, a.target_answer_rate))

\* if service_level >= target_sla and answer_rate >= target_answer_rate
MeetsTargets(a, service_level, answer_rate) ==
    /\ FGe(service_level, a.target_sla)
    /\ FGe(answer_rate, a.target_answer_rate)

\* n / (1 - shrinkage), the argument of math.ceil
ShrinkageAdjusted(a, k) == FDiv(FromInt(k), FSub(One, a.shrinkage))

\* the statements of the loop body that assign a local, in order, and the
\* statement that follows each
Assignments ==
    [rho |-> "if_rho", erlang_b |-> "sum_erlang_b", sum_erlang_b |-> "p0",
     p0 |-> "pw", pw |-> "exponent_sl", exponent_sl |-> "service_level",
     service_level |-> "prob_abandon_given_wait",
     prob_abandon_given_wait |-> "abandonment_rate",
     abandonment_rate |-> "answer_rate", answer_rate |-> "if_targets"]

\* the value statement s computes for candidate k from the locals l
Value(s, l, a, k) ==
    CASE s = "rho" -> Rho(l, k)
      [] s = "erlang_b" -> ErlangB(l, k)
      [] s = "sum_erlang_b" -> SumErlangB(l, k)
      [] s = "p0" -> P0(l.sum_erlang_b, l.erlang_b, l.rho)
      [] s = "pw" -> Pw(l.erlang_b, l.rho, l.p0)
      [] s = "exponent_sl" -> ExponentSl(l, a, k)
      [] s = "service_level" -> ServiceLevel(l.pw, l.exponent_sl)
      [] s = "prob_abandon_given_wait" -> ProbAbandonGivenWait(l, k)
      [] s = "abandonment_rate" -> AbandonmentRate(l.pw, l.prob_abandon_given_wait)
      [] s = "answer_rate" -> AnswerRate(l.abandonment_rate)
      [] s = "return" -> ShrinkageAdjusted(a, k)

\* range(1, max_agents)
FirstCandidate == 1
InRange(a, k) == k < a.max_agents

---------------------------------------------------------------------------
(* The handler of "Calculate Required FTE" *)

hours_of_operation == 9
agent_work_hours == 8
coverage_factor == FDiv(FromInt(hours_of_operation), FromInt(agent_work_hours))
avg_patience_sec == 150

Percent(p) == FDiv(FromInt(p), FromInt(100))

\* shrinkage=0.30, the default of the parameter
DefaultShrinkage == Percent(30)

\* shrinkage=0 in the handler's call
HandlerShrinkageArg == Zero

\* the widgets' initial values
DefaultUi ==
    [calls_per_day |-> 250, aht_sec |-> 600, outbound_referrals_per_day |-> 90,
     avg_time_per_referral_sec |-> 300, target_sla |-> 80,
     sla_threshold_sec |-> 30, target_answer_rate |-> 95, shrinkage |-> 20]

\* the arguments of the call at lines 104-112
HandlerArgs(u) ==
    Args(FDiv(FromInt(u.calls_per_day), FromInt(hours_of_operation)),
         FromInt(u.aht_sec),
         Percent(u.target_sla),
         FromInt(u.sla_threshold_sec),
         Percent(u.target_answer_rate),
         FromInt(avg_patience_sec),
         DefaultMaxAgents,
         HandlerShrinkageArg)

\* a test that takes only 0 for false
NonZero(v) == v # 0

\* if inbound_fte_on_floor:
Truthy(v) == v # None /\ v # 0

\* 1 - (shrinkage/100)
Productive(u) == FSub(One, Percent(u.shrinkage))

TotalInboundFte(u, inbound_fte_on_floor) ==
    FDiv(FMul(FromInt(inbound_fte_on_floor), coverage_factor), Productive(u))

AgentProductiveSecondsPerDay(u) ==
    FMul(FromInt(agent_work_hours * 3600), Productive(u))

OutboundFte(u) ==
    IF FGt(AgentProductiveSecondsPerDay(u), Zero)
    THEN FDiv(FromInt(u.outbound_referrals_per_day * u.avg_time_per_referral_sec),
              AgentProductiveSecondsPerDay(u))
    ELSE Zero

Blank == [kind |-> "blank", total |-> 0, inbound |-> 0, outbound |-> 0, exc |-> ""]

\* st.success and the two st.metric: the three values formatted with .1f
Results(u, inbound_fte_on_floor) ==
    [kind |-> "success",
     total |-> Tenths(FAdd(TotalInboundFte(u, inbound_fte_on_floor), OutboundFte(u))),
     inbound |-> Tenths(TotalInboundFte(u, inbound_fte_on_floor)),
     outbound |-> Tenths(OutboundFte(u)),
     exc |-> ""]

\* st.error("Could not compute FTE ...")
ErrorMessage == [Blank EXCEPT !.kind = "error"]

\* an exception leaves the handler: the page shows it instead of results
Traceback(e) == [Blank EXCEPT !.kind = "exception", !.exc = e]

---------------------------------------------------------------------------
(* Inputs *)

NormalArgs ==
    { Args(FromInt(3 * k), FromInt(600), sla, FromInt(30), Percent(95), FromInt(150), m, Zero) :
        k \in 0 .. MaxCallUnits,
        sla \in {Percent(80), Percent(99)},
        m \in (1 .. MaxAgentsSmall) \cup {DefaultMaxAgents} }
    \cup
    { Args(FromInt(3 * k), FromInt(600), Percent(80), Zero, Percent(95), FromInt(150),
           DefaultMaxAgents, Zero) : k \in 0 .. MaxCallUnits }

\* offered load exactly 3 (2160 * 5 / 3600), and just below; a huge threshold
BoundaryArgs ==
    { Args(FromInt(c), FromInt(5), Percent(80), thr, Percent(95), FromInt(150), m, Zero) :
        c \in {2100, 2160},
        thr \in {FromInt(30), Round(1, 57)},
        m \in {4, DefaultMaxAgents} }

\* offered load 144 under a ceiling above and below it
LargeArgs ==
    { Args(FromInt(144), FromInt(3600), Percent(80), FromInt(30), Percent(95),
           FromInt(150), m, Zero) : m \in {DefaultMaxAgents, 200} }

NegativeThresholdArgs ==
    { Args(FromInt(6), FromInt(600), Percent(80), FromInt(-200000), Percent(95),
           FromInt(150), DefaultMaxAgents, Zero) }

InvalidArgs ==
    { Args(FromInt(c), FromInt(h), Percent(80), FromInt(30), Percent(95),
           FromInt(p), DefaultMaxAgents, Zero) :
        <<c, h, p>> \in {<<6, 0, 150>>, <<6, -600, 150>>, <<6, 600, 0>>,
                         <<6, 600, -150>>, <<-6, 600, 150>>} }

\* no calls, a handle time of 2^-1030 seconds
TinyHandleTimeArgs ==
    { Args(Zero, Round(1, -1030), Percent(80), thr, Percent(95), FromInt(150),
           MaxAgentsSmall, Zero) : thr \in {Zero, FromInt(30)} }

DirectArgs ==
    NormalArgs \cup BoundaryArgs \cup LargeArgs \cup NegativeThresholdArgs
        \cup InvalidArgs \cup TinyHandleTimeArgs

Ui(c, h, ob, sla, thr, sh) ==
    [calls_per_day |-> c, aht_sec |-> h, outbound_referrals_per_day |-> ob,
     avg_time_per_referral_sec |-> 300, target_sla |-> sla,
     sla_threshold_sec |-> thr, target_answer_rate |-> 95, shrinkage |-> sh]

\* 900 calls a day of an hour each offer 100 erlangs: more than 99 agents carry
UiInputs ==
    { Ui(c, 600, ob, sla, 30, sh) :
        c \in {1, 250}, ob \in {0, 90}, sla \in {80, 99}, sh \in {0, 20, 100} }
    \cup { Ui(900, 3600, 90, 80, 30, sh) : sh \in {20, 100} }
    \cup { Ui(250, 600, 90, 80, -200000, 20) }

\* the arguments each click passes
ClickArgs == [u \in UiInputs |-> HandlerArgs(u)]

---------------------------------------------------------------------------
(* The state machine *)

NoPrev == [set |-> FALSE, args |-> DefaultUi, pc |-> "idle", result |-> None]

Init ==
    /\ pc = "idle"
    /\ caller = "direct"
    /\ args = HandlerArgs(DefaultUi)
    /\ locals = NoLocals
    /\ n = 0
    /\ trail = <<>>
    /\ result = None
    /\ exc = ""
    /\ prev = NoPrev
    /\ ui = DefaultUi
    /\ hpc = "none"
    /\ view = Blank

\* no call of erlang_a_fte is running and the handler is not waiting for one
Quiet == pc \in {"idle", "returned", "raised"} /\ hpc # "await"

SameButCalls(a, b) == [a EXCEPT !.calls_per_hour = Zero] = [b EXCEPT !.calls_per_hour = Zero]

\* erlang_a_fte(...) called on its own; prev keeps the call before it when
\* that one differed in calls_per_hour alone and had no more of them
DirectCall(a) ==
    /\ Quiet
    /\ prev' = IF /\ caller = "direct"
                  /\ pc \in {"returned", "raised"}
                  /\ SameButCalls(args, a)
                  /\ FGe(a.calls_per_hour, args.calls_per_hour)
               THEN [set |-> TRUE, args |-> args, pc |-> pc, result |-> result]
               ELSE NoPrev
    /\ caller' = "direct"
    /\ args' = a
    /\ pc' = "entry"
    /\ locals' = NoLocals
    /\ n' = 0
    /\ trail' = <<>>
    /\ result' = None
    /\ exc' = ""
    /\ ui' = DefaultUi
    /\ hpc' = "none"
    /\ view' = Blank

\* the button is clicked with the widgets at u: lines 98-112
Click(u) ==
    /\ Quiet
    /\ prev' = NoPrev
    /\ caller' = "handler"
    /\ args' = ClickArgs[u]
    /\ pc' = "entry"
    /\ locals' = NoLocals
    /\ n' = 0
    /\ trail' = <<>>
    /\ result' = None
    /\ exc' = ""
    /\ ui' = u
    /\ hpc' = "await"
    /\ view' = Blank

\* lines 21-23
Enter ==
    /\ pc = "entry"
    /\ PrologueExc(args) = ""
    /\ locals' = Prologue(args)
    /\ n' = FirstCandidate
    /\ pc' = "for"
    /\ UNCHANGED <<caller, args, trail, result, exc, prev, ui, hpc, view>>

\* lines 21-23 raise
EnterRaises ==
    /\ pc = "entry"
    /\ PrologueExc(args) # ""
    /\ exc' = PrologueExc(args)
    /\ pc' = "raised"
    /\ UNCHANGED <<caller, args, locals, n, trail, result, prev, ui, hpc, view>>

\* for n in range(1, max_agents): the body runs for candidate n
ForNext ==
    /\ pc = "for"
    /\ InRange(args, n)
    /\ pc' = "rho"
    /\ UNCHANGED <<caller, args, locals, n, trail, result, exc, prev, ui, hpc, view>>

\* the range is exhausted: return None
ForExhausted ==
    /\ pc = "for"
    /\ ~InRange(args, n)
    /\ result' = None
    /\ pc' = "returned"
    /\ UNCHANGED <<caller, args, locals, n, trail, exc, prev, ui, hpc, view>>

\* an assignment of the loop body
Assign(s) ==
    /\ pc = s
    /\ ~IsExc(Value(s, locals, args, n))
    /\ locals' = [locals EXCEPT ![s] = Value(s, locals, args, n)]
    /\ pc' = Assignments[s]
    /\ UNCHANGED <<caller, args, n, trail, result, exc, prev, ui, hpc, view>>

\* a statement of the loop body raises
Raises ==
    /\ pc \in DOMAIN Assignments \cup {"return"}
    /\ IsExc(Value(pc, locals, args, n))
    /\ exc' = ExcName(Value(pc, locals, args, n))
    /\ trail' = Append(trail, <<n, "raise">>)
    /\ pc' = "raised"
    /\ UNCHANGED <<caller, args, locals, n, result, prev, ui, hpc, view>>

\* if rho >= 1: continue
Continue ==
    /\ pc = "if_rho"
    /\ Unstable(locals.rho)
    /\ trail' = Append(trail, <<n, "skip">>)
    /\ n' = n + 1
    /\ pc' = "for"
    /\ UNCHANGED <<caller, args, locals, result, exc, prev, ui, hpc, view>>

Stable ==
    /\ pc = "if_rho"
    /\ ~Unstable(locals.rho)
    /\ pc' = "erlang_b"
    /\ UNCHANGED <<caller, args, locals, n, trail, result, exc, prev, ui, hpc, view>>

\* line 57 holds
TargetsMet ==
    /\ pc = "if_targets"
    /\ MeetsTargets(args, locals.service_level, locals.answer_rate)
    /\ pc' = "return"
    /\ UNCHANGED <<caller, args, locals, n, trail, result, exc, prev, ui, hpc, view>>

\* line 57 fails: on to the next candidate
TargetsMissed ==
    /\ pc = "if_targets"
    /\ ~MeetsTargets(args, locals.service_level, locals.answer_rate)
    /\ trail' = Append(trail, <<n, "reject">>)
    /\ n' = n + 1
    /\ pc' = "for"
    /\ UNCHANGED <<caller, args, locals, result, exc, prev, ui, hpc, view>>

\* return math.ceil(n / (1 - shrinkage))
Return ==
    /\ pc = "return"
    /\ ~IsExc(Value("return", locals, args, n))
    /\ result' = FCeil(Value("return", locals, args, n))
    /\ trail' = Append(trail, <<n, "accept">>)
    /\ pc' = "returned"
    /\ UNCHANGED <<caller, args, locals, n, exc, prev, ui, hpc, view>>

\* lines 114-130
ShowResults ==
    /\ hpc = "await"
    /\ pc = "returned"
    /\ Truthy(result)
    /\ ~IsExc(TotalInboundFte(ui, result))
    /\ view' = Results(ui, result)
    /\ hpc' = "done"
    /\ UNCHANGED <<pc, caller, args, locals, n, trail, result, exc, prev, ui>>

\* line 116 raises
ShowResultsRaises ==
    /\ hpc = "await"
    /\ pc = "returned"
    /\ Truthy(result)
    /\ IsExc(TotalInboundFte(ui, result))
    /\ view' = Traceback(ExcName(TotalInboundFte(ui, result)))
    /\ hpc' = "done"
    /\ UNCHANGED <<pc, caller, args, locals, n, trail, result, exc, prev, ui>>

\* lines 132-133
ShowError ==
    /\ hpc = "await"
    /\ pc = "returned"
    /\ ~Truthy(result)
    /\ view' = ErrorMessage
    /\ hpc' = "done"
    /\ UNCHANGED <<pc, caller, args, locals, n, trail, result, exc, prev, ui>>

\* the exception of erlang_a_fte leaves the handler
Propagate ==
    /\ hpc = "await"
    /\ pc = "raised"
    /\ view' = Traceback(exc)
    /\ hpc' = "done"
    /\ UNCHANGED <<pc, caller, args, locals, n, trail, result, exc, prev, ui>>

Next ==
    \/ \E a \in DirectArgs : DirectCall(a)
    \/ \E u \in UiInputs : Click(u)
    \/ Enter
    \/ EnterRaises
    \/ ForNext
    \/ ForExhausted
    \/ \E s \in DOMAIN Assignments : Assign(s)
    \/ Raises
    \/ Continue
    \/ Stable
    \/ TargetsMet
    \/ TargetsMissed
    \/ Return
    \/ ShowResults
    \/ ShowResultsRaises
    \/ ShowError
    \/ Propagate

Spec == Init /\ [][Next]_vars

---------------------------------------------------------------------------
(* Properties *)

Positive(x) == x[1] > 0 /\ ~IsExc(x)
Negative(x) == x[1] < 0 /\ ~IsExc(x)

Terminal == pc \in {"returned", "raised"}

\* calls_per_hour * aht_sec < 3600 * k, in exact arithmetic on the arguments
\* (two significands of MantBits bits each: with a combined exponent >= 0
\* the product exceeds 3600 * k for every k the search reaches)
LoadBelow(a, k) ==
    LET P == a.calls_per_hour[1] * a.aht_sec[1]
        E == a.calls_per_hour[2] + a.aht_sec[2]
    IN  IF P < 0 THEN TRUE
        ELSE IF P = 0 THEN k > 0
        ELSE IF E >= 0 THEN FALSE
        ELSE IF -E > 2 * MantBits THEN TRUE
        ELSE P \div 2^(-E) < 3600 * k

\* the inputs the solver's contract calls valid
ValidArgs(a) ==
    /\ ~Negative(a.calls_per_hour)
    /\ Positive(a.aht_sec)
    /\ Positive(a.avg_patience_sec)
    /\ ~Negative(a.sla_threshold_sec)
    /\ Positive(a.target_sla) /\ FGe(One, a.target_sla)
    /\ Positive(a.target_answer_rate) /\ FGe(One, a.target_answer_rate)
    /\ a.max_agents >= 1
    /\ a.shrinkage = Zero

\* the candidates evaluated so far are 1, 2, 3, ... in this order
Ascending == \A i \in 1 .. Len(trail) : trail[i][1] = i

\* every candidate but the last was skipped or rejected
OnlyLastAccepted ==
    \A i \in 1 .. Len(trail) - 1 : trail[i][2] \in {"skip", "reject"}

\* C1: for valid inputs the call ends by returning; a returned count is the
\* first candidate that is stable and meets both targets, every smaller one
\* having been skipped as unstable or rejected; the infeasible value is
\* returned only after all of 1 .. max_agents - 1 were skipped or rejected
C1_SmallestFeasibleOrNone ==
    ValidArgs(args) /\ Terminal =>
        /\ pc = "returned"
        /\ Ascending
        /\ result # None =>
            /\ Len(trail) = result
            /\ trail[result][2] = "accept"
            /\ OnlyLastAccepted
        /\ result = None =>
            /\ Len(trail) = args.max_agents - 1
            /\ \A i \in 1 .. Len(trail) : trail[i][2] \in {"skip", "reject"}

\* C2: a returned agent count n (shrinkage 0) always satisfies
\* calls_per_hour * aht_sec < 3600 * n, also when the offered load is exactly n
C2_NeverReturnsUnstable ==
    pc = "returned" /\ result # None /\ args.shrinkage = Zero =>
        LoadBelow(args, result)

\* C3: a search that accepts no candidate returns None, and the handler then
\* shows the infeasibility message and no inbound, outbound or total value;
\* a returned agent count is at least 1, so the handler shows the message
\* only for None
C3_InfeasibleIsDistinct ==
    /\ pc = "returned" /\ (\A i \in 1 .. Len(trail) : trail[i][2] # "accept") =>
            result = None
    /\ pc = "returned" /\ args.shrinkage = Zero /\ result # None => result >= 1
    /\ hpc = "done" /\ pc = "returned" /\ result = None => view = ErrorMessage
    /\ hpc = "done" /\ view.kind = "error" => pc = "returned" /\ result = None
    /\ hpc = "done" /\ pc = "returned" /\ result # None => view.kind # "error"

\* the handler showed the infeasibility message after the search had skipped
\* or rejected every candidate
C3_Witness ==
    /\ hpc = "done"
    /\ view = ErrorMessage
    /\ result = None
    /\ Len(trail) = DefaultMaxAgents - 1

\* C4: with the shrinkage slider at 100 the handler ends with neither a
\* numeric result nor the infeasibility message
C4_Shrinkage100IsInputError ==
    hpc = "done" /\ ui.shrinkage >= 100 => view.kind \notin {"success", "error"}

\* C5: with aht_sec <= 0, avg_patience_sec <= 0 or negative calls the call
\* never enters the loop and never returns: it is rejected on entry
C5_InvalidRejectedBeforeLoop ==
    /\ pc # "idle"
    /\ \/ ~Positive(args.aht_sec)
       \/ ~Positive(args.avg_patience_sec)
       \/ Negative(args.calls_per_hour)
    => pc \in {"entry", "raised"} /\ trail = <<>>

\* C6: with no calls, aht_sec > 0, avg_patience_sec > 0, a threshold >= 0,
\* max_agents >= 2 and targets in (0, 1], the call ends by returning 1
C6_ZeroVolumeNeedsOne ==
    /\ Terminal
    /\ ValidArgs(args)
    /\ args.calls_per_hour = Zero
    /\ args.max_agents >= 2
    => pc = "returned" /\ result = 1

\* the infeasible value counts as larger than every agent count
Rank(r) == IF r = None THEN 2 * DefaultMaxAgents + 1 ELSE r

\* C7: of two calls that differ in calls_per_hour alone, the one with no
\* more calls returns no larger a result, None counting as the largest
C7_MonotoneInCalls ==
    /\ prev.set
    /\ prev.pc = "returned"
    /\ pc = "returned"
    => Rank(prev.result) <= Rank(result)

\* more calls needed more agents, and more calls still made it infeasible
C7_Witness ==
    /\ prev.set
    /\ prev.pc = "returned"
    /\ pc = "returned"
    /\ FGt(args.calls_per_hour, prev.args.calls_per_hour)
    /\ prev.result # None
    /\ \/ result # None /\ prev.result < result
       \/ result = None /\ args.max_agents = MaxAgentsSmall

\* the difference of two integers, without its sign
Dist(x, y) == IF x >= y THEN x - y ELSE y - x

\* the candidate the search accepted
Accepted == trail[Len(trail)][1]

\* C8: when the handler shows results, erlang_a_fte returned the accepted
\* candidate n itself, the inbound FTE shown is n * 9/8 / (1 - shrinkage/100),
\* the outbound FTE shown is the outbound seconds over 8 * 3600 *
\* (1 - shrinkage/100), each to the displayed tenth, and the total shown is
\* their sum
C8_ShrinkageAppliedOnce ==
    hpc = "done" /\ view.kind = "success" =>
        /\ result = Accepted
        /\ Dist(view.inbound * 8 * (100 - ui.shrinkage), 9000 * Accepted)
               <= 8 * (100 - ui.shrinkage)
        /\ Dist(view.outbound * 288 * (100 - ui.shrinkage),
                10 * ui.outbound_referrals_per_day * ui.avg_time_per_referral_sec)
               <= 288 * (100 - ui.shrinkage)
        /\ Dist(view.total, view.inbound + view.outbound) <= 1

\* 250 calls a day of 600 seconds with 20% shrinkage and 90 referrals of 300
\* seconds: 8 agents on the floor, 11.2 inbound, 1.2 outbound, 12.4 in total
C8_Witness ==
    /\ hpc = "done"
    /\ view.kind = "success"
    /\ ui = DefaultUi
    /\ result = 8
    /\ Accepted = 8
    /\ view.inbound = 112
    /\ view.outbound = 12
    /\ view.total = 124

\* C9: with aht_sec > 0 and avg_patience_sec > 0 the call never ends in an
\* exception; the candidates are evaluated in the order 1, 2, 3, ..., at most
\* max_agents - 1 of them, and none after the accepted one
C9_AlwaysEndsWithCountOrNone ==
    pc # "idle" /\ Positive(args.aht_sec) /\ Positive(args.avg_patience_sec) =>
        /\ pc # "raised"
        /\ Ascending
        /\ OnlyLastAccepted
        /\ Len(trail) <= args.max_agents - 1
        /\ pc = "returned" => result = None \/ result = Accepted

\* C10: an offered load of max_agents - 1 or more makes the call return None,
\* and a returned agent count n has offered load < n <= max_agents - 1
C10_LoadBoundsResult ==
    pc = "returned" /\ args.shrinkage = Zero =>
        /\ ~LoadBelow(args, args.max_agents - 1) => result = None
        /\ result # None =>
            /\ LoadBelow(args, result)
            /\ result <= args.max_agents - 1

===========================================================================
